---------------------------- MODULE Spec2Model ----------------------------
(***************************************************************************)
(* Model of transcode_recordings.py: the post-processing of one TVheadend  *)
(* recording.  main() loads the recording from the registry, runs the      *)
(* commercial detector, turns its report into chapter metadata, probes the *)
(* source bitrate, runs the encoder, moves the output next to the source,  *)
(* tells the registry that the file moved and removes the source.          *)
(*                                                                         *)
(* A line of text is a sequence of atoms: the characters that the regular  *)
(* expressions of generate_metadata look at one by one (digits and         *)
(* whitespace) are single atoms, and the literal words of the header       *)
(* pattern are one atom each.                                              *)
(***************************************************************************)
EXTENDS Integers, Sequences, FiniteSets, TLC

VARIABLES
    argv,                  \* sys.argv[1:], the arguments after the script name
    pc,                    \* position of the process in main()
    exit_status,           \* exit status of the process, NoStatus while it runs
    run,                   \* number of the invocation (1 = first)
    reg_filename,          \* registry: the file path it records for the recording
    fs,                    \* file system: path -> content (NoFile when absent)
    fs_at_start,           \* fs when the current invocation started
    dirs,                  \* file system: the directories that exist
    filename,              \* record.filename.value
    transcoded_path,       \* record.transcoded_path
    comskip_configfile,    \* main's comskip_configfile
    raw_detection_result,  \* CommercialDetector.raw_detection_result
    commercials,           \* generate_metadata's commercials
    content,               \* generate_metadata's content
    ffmetadata,            \* record.ffmetadata
    target_video_bitrate,  \* start_transcoding's target_video_bitrate
    calls,                 \* the external operations this invocation made
    stages,                \* the pipeline stages this invocation completed
    previous_stages,       \* the stages the invocation before this one completed
    factor                 \* start_transcoding's factor, as <<numerator, denominator>>

vars == <<argv, pc, exit_status, run, reg_filename, fs, fs_at_start, dirs,
          filename, transcoded_path, comskip_configfile, raw_detection_result,
          commercials, content, ffmetadata, target_video_bitrate, calls,
          stages, previous_stages, factor>>

---------------------------------------------------------------------------
(* Bounds of the model. *)

\* longest detector report, in lines
MaxLines == 4

\* invocations of the script for the recording in one behaviour
MaxRuns == 2

---------------------------------------------------------------------------
(* Text: atoms, the two regular expressions, int(). *)

Digit == {"0", "1", "2", "3", "4", "5", "6", "7", "8", "9"}

Whitespace == {" ", "\t"}

\* the literal text that starts header_regexp
LitComplete == "FILE PROCESSING COMPLETE"

\* the literal text in the middle of header_regexp (it starts with one blank)
LitFramesAt == " FRAMES AT"

DigitVal(c) ==
    CASE c = "0" -> 0 [] c = "1" -> 1 [] c = "2" -> 2 [] c = "3" -> 3
      [] c = "4" -> 4 [] c = "5" -> 5 [] c = "6" -> 6 [] c = "7" -> 7
      [] c = "8" -> 8 [] c = "9" -> 9

\* int(text) for a text of decimal digits
RECURSIVE IntOf(_)
IntOf(ds) ==
    IF ds = <<>> THEN 0
    ELSE 10 * IntOf(SubSeq(ds, 1, Len(ds) - 1)) + DigitVal(ds[Len(ds)])

\* the position after the longest run of atoms of class cls that starts at pos
\* (a greedy \d+ or \s+; the classes are disjoint, so nothing is given back)
RECURSIVE RunEnd(_, _, _)
RunEnd(line, pos, cls) ==
    IF pos <= Len(line) /\ line[pos] \in cls
    THEN RunEnd(line, pos + 1, cls)
    ELSE pos

\* re.match(r"(\d+)\s+(\d+)", line): the two groups, or <<>> when no match.
\* re.match anchors at the start of the line only.
ChapterMatch(line) ==
    LET d1 == RunEnd(line, 1, Digit)
        w  == RunEnd(line, d1, Whitespace)
        d2 == RunEnd(line, w, Digit)
    IN  IF d1 > 1 /\ w > d1 /\ d2 > w
        THEN <<SubSeq(line, 1, d1 - 1), SubSeq(line, w, d2 - 1)>>
        ELSE <<>>

\* re.match(r"FILE PROCESSING COMPLETE\s+(\d+) FRAMES AT\s+(\d+)", line)
HeaderMatch(line) ==
    IF Len(line) >= 1 /\ line[1] = LitComplete
    THEN LET w1 == RunEnd(line, 2, Whitespace)
             d1 == RunEnd(line, w1, Digit)
             w2 == RunEnd(line, d1 + 1, Whitespace)
             d2 == RunEnd(line, w2, Digit)
         IN  IF /\ w1 > 2 /\ d1 > w1
                /\ d1 <= Len(line) /\ line[d1] = LitFramesAt
                /\ w2 > d1 + 1 /\ d2 > w2
             THEN <<SubSeq(line, w1, d1 - 1), SubSeq(line, w2, d2 - 1)>>
             ELSE <<>>
    ELSE <<>>

---------------------------------------------------------------------------
(* CommercialDetector.generate_metadata and _chapter_as_string. *)

\* a report shorter than this is left alone
MinReportLines == 3

FirstIntervalLineAfterHeader == 1 + 1

\* position in the report (counted from 1) of the first line read as an
\* interval: range(2, len(...)) starts at index 2 counted from 0
FirstIntervalLine == 3

\* a candidate is kept when it is longer than this many frames
MinFrames == 10

\* the frame the content scan starts at
FirstFrame == 1

KeepCandidateNoThreshold(start, end) == end > start

\* if (int(end) - int(start)) > 10
KeepCandidate(start, end) == end - start > MinFrames

\* the loop over the lines of the report, from line i on; acc is commercials.
\* The code keeps the matched text and applies int() at each use; the model
\* applies int() once, when the pair is appended.
RECURSIVE ScanIntervals(_, _, _)
ScanIntervals(report, i, acc) ==
    IF i > Len(report) THEN acc
    ELSE LET m == ChapterMatch(report[i])
         IN  IF m = <<>>
             THEN ScanIntervals(report, i + 1, acc)
             ELSE LET start == IntOf(m[1])
                      end   == IntOf(m[2])
                  IN  ScanIntervals(report, i + 1,
                          IF KeepCandidate(start, end)
                          THEN Append(acc, <<start, end>>)
                          ELSE acc)

TrailingContentAlways(cont_idx, n, last_pos, last_frame) == cont_idx = n

\* if cont_idx == (len(commercials)-1) and last_pos < last_frame
TrailingContent(cont_idx, n, last_pos, last_frame) ==
    cont_idx = n /\ last_pos < last_frame

CursorAfterStart(com) == com[1]

\* last_pos = int(com[1])
CursorAfter(com) == com[2]

ContentLoopWholeVideo(coms, cont_idx, last_pos, last_frame, acc) ==
    IF coms = <<>> THEN << <<last_pos, last_frame>> >> ELSE acc

\* the loop over commercials, from index cont_idx on; acc is content
RECURSIVE ContentLoop(_, _, _, _, _)
ContentLoop(coms, cont_idx, last_pos, last_frame, acc) ==
    IF cont_idx > Len(coms) THEN acc
    ELSE LET com  == coms[cont_idx]
             acc1 == IF com[1] > last_pos
                     THEN Append(acc, <<last_pos, com[1]>>)
                     ELSE acc
             pos  == CursorAfter(com)
             acc2 == IF TrailingContent(cont_idx, Len(coms), pos, last_frame)
                     THEN Append(acc1, <<pos, last_frame>>)
                     ELSE acc1
         IN  ContentLoop(coms, cont_idx + 1, pos, last_frame, acc2)

\* _chapter_as_string: one chapter record per segment, numbered from 1
ChapterAsString(frame_rate, label, segments) ==
    [idx \in 1..Len(segments) |->
        [timebase |-> frame_rate,
         START    |-> segments[idx][1],
         END      |-> segments[idx][2],
         title    |-> <<label, idx>>]]

\* generate_metadata: what it leaves in commercials, content and
\* CommercialDetector.ffmetadata for a report
GenerateMetadata(report) ==
    LET none == [commercials |-> <<>>, content |-> <<>>, ffmetadata |-> <<>>]
    IN  IF Len(report) < MinReportLines THEN none
        ELSE LET header_match == HeaderMatch(report[1])
             IN  IF header_match = <<>> THEN none
                 ELSE LET last_frame == IntOf(header_match[1])
                          frame_rate == header_match[2]
                          coms == ScanIntervals(report, FirstIntervalLine, <<>>)
                          cont == ContentLoop(coms, 1, FirstFrame, last_frame, <<>>)
                      IN  [commercials |-> coms,
                           content     |-> cont,
                           ffmetadata  |->
                               ChapterAsString(frame_rate, "content", cont)
                               \o ChapterAsString(frame_rate, "commercial", coms)]

---------------------------------------------------------------------------
(* Paths and the file system. *)

\* a path is [dir, base, ext]: os.path.dirname, and os.path.splitext of
\* os.path.basename
Dirname(p) == p.dir

Basename(p) == [base |-> p.base, ext |-> p.ext]

\* os.path.splitext(name)[0]
SplitextRoot(name) == name.base

\* os.path.join(dir, name)
Join(dir, name) == [dir |-> dir, base |-> name.base, ext |-> name.ext]

\* the extension start_transcoding gives the output
OutputExt == "mp4"

\* transcoded_file = os.path.splitext(os.path.basename(...))[0]+'.mp4'
TranscodedFile(video) ==
    [base |-> SplitextRoot(Basename(video)), ext |-> OutputExt]

\* the directory TVheadend records into
RecDir == "/recordings"

\* the directory tempfile.TemporaryDirectory() makes in detect_commercials
ComskipTmp == "/tmp/comskip"

\* the directory tempfile.TemporaryDirectory() makes in start_transcoding
EncTmp == "/tmp/transcode"

TempDirs == {ComskipTmp, EncTmp}

\* the extensions a recording may have in the registry
SourceExts == {"ts", "mp4"}

RecordingName == "show"

SourcePaths == {[dir |-> RecDir, base |-> RecordingName, ext |-> e] : e \in SourceExts}

\* self.metadata_file
MetadataFile == [dir |-> EncTmp, base |-> "metadata", ext |-> "txt"]

\* temp_out_file
TempOutFile(video) == Join(EncTmp, TranscodedFile(video))

Files ==
    SourcePaths
    \cup {Join(Dirname(p), TranscodedFile(p)) : p \in SourcePaths}
    \cup {TempOutFile(p) : p \in SourcePaths}
    \cup {MetadataFile}

\* contents of a path: nothing, a video that was encoded gen times since it
\* was recorded (0: the recording itself), or the metadata text
NoFile == [kind |-> "none"]

Video(gen) == [kind |-> "video", gen |-> gen]

Metadata(text) == [kind |-> "metadata", text |-> text]

Exists(f, p) == f[p] # NoFile

---------------------------------------------------------------------------
(* The detector's reports. *)

DigitChar(d) ==
    CASE d = 0 -> "0" [] d = 1 -> "1" [] d = 2 -> "2" [] d = 3 -> "3"
      [] d = 4 -> "4" [] d = 5 -> "5" [] d = 6 -> "6" [] d = 7 -> "7"
      [] d = 8 -> "8" [] d = 9 -> "9"

\* the decimal text of a number, as the detector prints it
RECURSIVE Digits(_)
Digits(n) ==
    IF n < 10 THEN <<DigitChar(n)>>
    ELSE Append(Digits(n \div 10), DigitChar(n % 10))

\* "FILE PROCESSING COMPLETE  <frames> FRAMES AT  <rate>"
HeaderLine(frames, rate) ==
    <<LitComplete, " ", " ">> \o Digits(frames)
        \o <<LitFramesAt, " ", " ">> \o Digits(rate)

\* the line of dashes the detector prints under the header
Separator == <<"-", "-", "-">>

\* "<start>\t<end>"
IntervalLine(start, end) == Digits(start) \o <<"\t">> \o Digits(end)

ExampleHeader == HeaderLine(1000, 25)

\* the lines the reports of the model are made of
LinePool ==
    { ExampleHeader, Separator,
      IntervalLine(100, 130), IntervalLine(500, 550), IntervalLine(100, 105),
      IntervalLine(1, 100), IntervalLine(550, 1000), IntervalLine(500, 120),
      IntervalLine(120, 520) }

\* every report of at most MaxLines lines
Reports == UNION {[1..n -> LinePool] : n \in 0..MaxLines}

\* the reports the detector writes in the runs of the pipeline
DetectorReports ==
    { <<ExampleHeader, Separator>>,
      <<Separator, Separator, IntervalLine(100, 130)>>,
      <<ExampleHeader, Separator, IntervalLine(100, 105)>>,
      <<ExampleHeader, Separator, IntervalLine(100, 130), IntervalLine(500, 550)>> }

---------------------------------------------------------------------------
(* The bitrate estimate. *)

\* factor=0.6 of start_transcoding, as the ratio FactorNum / FactorDen
FactorNum == 6

FactorDen == 10

KiB == 1024

\* 1024 is 2^KiBExponent
KiBExponent == 10

TargetBitrateRoundUp(src_video_bitrate, num, den) ==
    ((src_video_bitrate * num + den * KiB - 1) \div (den * KiB)) * KiB

\* A float of Python is a binary64 number.  A positive one is modelled as
\* [bits, exp]: the binary digits of an integer, most significant first and
\* at most SignificandBits of them, and the power of two the integer is
\* multiplied with.

\* the digits of the significand of a float
SignificandBits == 53

\* the binary digits of n, most significant first; none for 0
RECURSIVE BitsOf(_)
BitsOf(n) == IF n = 0 THEN <<>> ELSE Append(BitsOf(n \div 2), n % 2)

\* the number that the first i binary digits of bits write
RECURSIVE ValueOfBits(_, _)
ValueOfBits(bits, i) ==
    IF i = 0 THEN 0 ELSE 2 * ValueOfBits(bits, i - 1) + bits[i]

\* the binary digits of the number after the one that the first i digits of
\* bits write; i + 1 digits when each of them is 1
RECURSIVE Increment(_, _)
Increment(bits, i) ==
    IF i = 0 THEN <<1>>
    ELSE IF bits[i] = 0 THEN Append(SubSeq(bits, 1, i - 1), 1)
    ELSE Append(Increment(bits, i - 1), 0)

\* the float nearest to bits * 2^exp, the even one of two that are equally
\* near: what every float operation and the reading of a literal return
RoundToFloat(bits, exp) ==
    IF Len(bits) <= SignificandBits
    THEN [bits |-> bits, exp |-> exp]
    ELSE LET rest == SubSeq(bits, SignificandBits + 1, Len(bits))
             more == \E i \in 2..Len(rest) : rest[i] = 1
             up == rest[1] = 1 /\ (more \/ bits[SignificandBits] = 1)
             next == Increment(bits, SignificandBits)
         IN  IF ~up
             THEN [bits |-> SubSeq(bits, 1, SignificandBits),
                   exp |-> exp + Len(rest)]
             ELSE IF Len(next) > SignificandBits
             THEN [bits |-> SubSeq(next, 1, SignificandBits),
                   exp |-> exp + Len(rest) + 1]
             ELSE [bits |-> next, exp |-> exp + Len(rest)]

\* the first n binary digits of r / den after the point, for 0 <= r < den,
\* and then one digit that is 1 when digits other than 0 follow
RECURSIVE QuotientBits(_, _, _)
QuotientBits(r, den, n) ==
    IF n = 0
    THEN << IF r = 0 THEN 0 ELSE 1 >>
    ELSE LET bit == IF 2 * r >= den THEN 1 ELSE 0
         IN  <<bit>> \o QuotientBits(2 * r - bit * den, den, n - 1)

\* the least e with num * 2^e >= den
RECURSIVE LeadingZeros(_, _)
LeadingZeros(num, den) ==
    IF num >= den THEN 0 ELSE 1 + LeadingZeros(2 * num, den)

\* the float that the literal for num / den is read as, 0 < num <= den
\* (0.6 for 6 / 10)
FloatOf(num, den) ==
    LET e == LeadingZeros(num, den)
        r == num * 2^e - den
    IN  RoundToFloat(<<1>> \o QuotientBits(r, den, SignificandBits),
                     0 - e - SignificandBits - 1)

\* long multiplication of the number that bits write by n: what the digits
\* after digit i carry into it
RECURSIVE CarryInto(_, _, _)
CarryInto(bits, i, n) ==
    IF i = Len(bits)
    THEN 0
    ELSE (bits[i + 1] * n + CarryInto(bits, i + 1, n)) \div 2

\* the binary digits of the number that bits write, times n
TimesInt(bits, n) ==
    BitsOf(CarryInto(bits, 0, n))
        \o [i \in 1..Len(bits) |-> (bits[i] * n + CarryInto(bits, i, n)) % 2]

\* src_video_bitrate * factor: the int becomes a float without loss, and
\* the product of the two floats is rounded
FloatProduct(n, x) == RoundToFloat(TimesInt(x.bits, n), x.exp)

\* int(x // 1024) for a float x > 0: the floor of the quotient, which the
\* division by a power of two gives without rounding
FloorDivKiB(x) ==
    LET drop == KiBExponent - x.exp
    IN  IF drop <= 0 THEN ValueOfBits(x.bits, Len(x.bits)) * 2^(0 - drop)
        ELSE IF drop >= Len(x.bits) THEN 0
        ELSE ValueOfBits(x.bits, Len(x.bits) - drop)

\* int((src_video_bitrate * factor) // 1024 * 1024), in the floats of the
\* code; the multiplication of a multiple of 1 by 1024 is exact
TargetBitrate(src_video_bitrate, num, den) ==
    IF src_video_bitrate = 0
    THEN 0
    ELSE FloorDivKiB(FloatProduct(src_video_bitrate, FloatOf(num, den))) * KiB

\* the bit rates the probe reports in the model
SourceBitrates == {0, 1706, 1707, 5120, 10240, 102400, 5000000}

\* the factors start_transcoding is called with in the model: the default
\* and other literals between 0 and 1
Factors ==
    {<<n, 10>> : n \in 1..10} \cup {<<29, 100>>, <<57, 100>>}

---------------------------------------------------------------------------
(* The process: main() and what it calls. *)

\* exit_status while the process runs
NoStatus == -1

\* the stages of an invocation, in the order of main()
StageOrder ==
    <<"LOADED", "DETECTED", "ANALYZED", "ESTIMATED", "ENCODED", "RELOCATED",
      "NOTIFIED", "CLEANED">>

\* an HTTP request that ends in an exception (no connection, timeout)
\* instead of a response
NoResponse == 0

\* the answers of the registry to a lookup
GetResults == {200, 404, NoResponse}

\* the answers of the registry to the file-moved request
PostResults == {200, 204, 500, NoResponse}

\* the registry takes a request as served when it answers 2xx
Is2xx(status_code) == status_code \in 200..299

\* exit codes of the external tools
ExitCodes == {0, 1}

\* the argument vectors the script is started with
Argvs ==
    { <<"uuid-1">>,
      <<"uuid-1", "OK">>,
      <<"uuid-1", "Aborted by user">>,
      <<"uuid-1", "OK", "comskip.ini">>,
      <<"uuid-1", "OK", "">>,
      <<"uuid-1", "Aborted by user", "comskip.ini">>,
      <<"uuid-1", "ok", "comskip.ini">> }

Range(seq) == {seq[i] : i \in DOMAIN seq}

\* one external operation: what was called, with what, how it ended and
\* what it gave back
Call(op, arg, rc, out) == [op |-> op, arg |-> arg, rc |-> rc, out |-> out]

\* the value of a variable that the code has not assigned yet
Unset == <<"unset">>

\* the variables of one invocation before main() has set them
FreshRun ==
    /\ pc = "start"
    /\ exit_status = NoStatus
    /\ filename = Unset
    /\ transcoded_path = Unset
    /\ comskip_configfile = Unset
    /\ raw_detection_result = <<>>
    /\ commercials = <<>>
    /\ content = <<>>
    /\ ffmetadata = Unset
    /\ target_video_bitrate = Unset
    /\ calls = <<>>
    /\ stages = <<>>

\* the recording has just been written; the script has not run yet
Init ==
    /\ argv \in Argvs
    /\ run = 1
    /\ reg_filename \in SourcePaths
    /\ fs = [p \in Files |-> IF p = reg_filename THEN Video(0) ELSE NoFile]
    /\ fs_at_start = fs
    /\ dirs = {RecDir}
    /\ previous_stages = <<>>
    /\ factor = <<FactorNum, FactorDen>>
    /\ FreshRun

\* number of entries of sys.argv that main() accepts
AcceptedArgc == 4

\* not (len(sys.argv) != 4)
ArgcAccepted(argc) == argc = AcceptedArgc

StatusIsOKAnyCase(status) == status \in {"OK", "ok"}

\* not (status != "OK")
StatusIsOK(status) == status = "OK"

\* main(), up to the construction of the record: the checks of sys.argv.
\* len(sys.argv) counts the script name too.
ParseArguments ==
    /\ pc = "start"
    /\ IF ~ArgcAccepted(Len(argv) + 1)
       THEN /\ pc' = "return"
            /\ UNCHANGED comskip_configfile
       ELSE /\ comskip_configfile' = argv[3]
            /\ pc' = IF StatusIsOK(argv[2]) THEN "load" ELSE "return"
    /\ UNCHANGED <<argv, factor, previous_stages,
                   exit_status, run, reg_filename, fs, fs_at_start, dirs,
                   filename, transcoded_path, raw_detection_result,
                   commercials, content, ffmetadata, target_video_bitrate,
                   calls, stages>>

\* TVHDVRRecord.generate_metadata: the descriptive fields, and no chapter yet
HeaderFields == <<"title", "artist", "description", "date", "network">>

LookupAnsweredAnyStatus(status_code) == status_code # NoResponse

\* not (ts_response.status_code != 200) in TVHRecord.__init__
LookupAnswered(status_code) == status_code = 200

\* TVHDVRRecord(...): the lookup of the recording, then of its channel.
\* A lookup that is not answered with 200 leaves the record without
\* attributes, and the next attribute access raises; a request that raises
\* does so itself.  Nothing catches either: the process ends with a traceback.
LoadRecord ==
    /\ pc = "load"
    /\ \E r1 \in GetResults :
          IF ~LookupAnswered(r1)
          THEN /\ calls' = Append(calls, Call("load", argv[1], r1, ""))
               /\ pc' = "uncaught"
               /\ UNCHANGED <<filename, ffmetadata, stages>>
          ELSE \E r2 \in GetResults :
                 /\ calls' = calls \o <<Call("load", argv[1], r1, reg_filename),
                                        Call("load_channel", "channel", r2, "")>>
                 /\ IF ~LookupAnswered(r2)
                    THEN /\ pc' = "uncaught"
                         /\ UNCHANGED <<filename, ffmetadata, stages>>
                    ELSE /\ filename' = reg_filename
                         /\ ffmetadata' = [fields |-> HeaderFields, chapters |-> <<>>]
                         /\ stages' = Append(stages, "LOADED")
                         /\ pc' = "detect"
    /\ UNCHANGED <<argv, factor, previous_stages,
                   exit_status, run, reg_filename, fs, fs_at_start, dirs,
                   transcoded_path, comskip_configfile, raw_detection_result,
                   commercials, content, target_video_bitrate>>

IgnoresExitCode(rc) == FALSE

\* subprocess.run(..., check=True) raises CalledProcessError, which the
\* caller turns into TranscodeError, exactly when the exit code is not 0
Raises(rc) == rc # 0

\* comskip_call without 'comskip': the --ini flag only for a non-empty config
ComskipCall(config, video_filename, temp_dir) ==
    [ini |-> IF config # "" THEN <<"--ini=", config>> ELSE <<>>,
     video |-> video_filename,
     outdir |-> temp_dir]

\* CommercialDetector.detect_commercials: the detector runs in a temporary
\* directory; a non-zero exit raises TranscodeError, else the report is read
\* and the temporary directory goes away with the return of the method.
\* The detector cannot succeed on a file that is not there.
DetectCommercials ==
    /\ pc = "detect"
    /\ \E rc \in ExitCodes :
          /\ rc = 0 => Exists(fs, filename)
          /\ calls' = Append(calls,
                 Call("comskip", ComskipCall(comskip_configfile, filename, ComskipTmp), rc, ""))
          /\ IF Raises(rc)
             THEN /\ dirs' = dirs \cup {ComskipTmp}
                  /\ pc' = "except"
                  /\ UNCHANGED <<raw_detection_result, stages>>
             ELSE /\ raw_detection_result' \in DetectorReports
                  /\ dirs' = dirs \ {ComskipTmp}
                  /\ stages' = Append(stages, "DETECTED")
                  /\ pc' = "analyze"
    /\ UNCHANGED <<argv, factor, previous_stages,
                   exit_status, run, reg_filename, fs, fs_at_start,
                   filename, transcoded_path, comskip_configfile, commercials,
                   content, ffmetadata, target_video_bitrate>>

\* com.generate_metadata() and self.ffmetadata += "\n" + com.ffmetadata
AnalyzeSegments ==
    /\ pc = "analyze"
    /\ LET gm == GenerateMetadata(raw_detection_result)
       IN  /\ commercials' = gm.commercials
           /\ content' = gm.content
           /\ ffmetadata' = [ffmetadata EXCEPT !.chapters = gm.ffmetadata]
    /\ stages' = Append(stages, "ANALYZED")
    /\ pc' = "transcode"
    /\ UNCHANGED <<argv, factor, previous_stages,
                   exit_status, run, reg_filename, fs, fs_at_start, dirs,
                   filename, transcoded_path, comskip_configfile,
                   raw_detection_result, target_video_bitrate, calls>>

\* start_transcoding, up to the probe: the temporary directory, the paths,
\* the metadata file
PrepareTranscoding ==
    /\ pc = "transcode"
    /\ dirs' = dirs \cup {EncTmp}
    /\ transcoded_path' = Join(Dirname(filename), TranscodedFile(filename))
    /\ fs' = [fs EXCEPT ![MetadataFile] = Metadata(ffmetadata)]
    /\ pc' = "probe"
    /\ UNCHANGED <<argv, factor, previous_stages,
                   exit_status, run, reg_filename, fs_at_start, filename,
                   comskip_configfile, raw_detection_result, commercials,
                   content, ffmetadata, target_video_bitrate, calls, stages>>

\* _calculate_target_video_bitrate: the probe, then the estimate
EstimateBitrate ==
    /\ pc = "probe"
    /\ \E rc \in ExitCodes :
          /\ rc = 0 => Exists(fs, filename)
          /\ IF Raises(rc)
             THEN /\ calls' = Append(calls, Call("ffprobe", filename, rc, ""))
                  /\ pc' = "except"
                  /\ UNCHANGED <<target_video_bitrate, stages>>
             ELSE \E src_video_bitrate \in SourceBitrates :
                    /\ calls' = Append(calls,
                           Call("ffprobe", filename, rc, src_video_bitrate))
                    /\ target_video_bitrate' =
                           TargetBitrate(src_video_bitrate, factor[1], factor[2])
                    /\ stages' = Append(stages, "ESTIMATED")
                    /\ pc' = "encode"
    /\ UNCHANGED <<argv, factor, previous_stages,
                   exit_status, run, reg_filename, fs, fs_at_start, dirs,
                   filename, transcoded_path, comskip_configfile,
                   raw_detection_result, commercials, content, ffmetadata>>

\* subprocess.run(ffmpeg_call, check=True): the encoder writes temp_out_file
Encode ==
    /\ pc = "encode"
    /\ \E rc \in ExitCodes :
          /\ rc = 0 => Exists(fs, filename)
          /\ calls' = Append(calls,
                 Call("ffmpeg", <<filename, MetadataFile, target_video_bitrate>>, rc,
                      TempOutFile(filename)))
          /\ IF Raises(rc)
             THEN /\ pc' = "except"
                  /\ UNCHANGED <<fs, stages>>
             ELSE /\ fs' = [fs EXCEPT ![TempOutFile(filename)] =
                                          Video(fs[filename].gen + 1)]
                  /\ stages' = Append(stages, "ENCODED")
                  /\ pc' = "move"
    /\ UNCHANGED <<argv, factor, previous_stages,
                   exit_status, run, reg_filename, fs_at_start, dirs,
                   filename, transcoded_path, comskip_configfile,
                   raw_detection_result, commercials, content, ffmetadata,
                   target_video_bitrate>>

\* shutil.move(temp_out_file, self.transcoded_path): the output replaces
\* whatever is at transcoded_path, or the move raises and nothing changes
Relocate ==
    /\ pc = "move"
    /\ \E ok \in BOOLEAN :
          /\ ok => Dirname(transcoded_path) \in dirs
          /\ calls' = Append(calls,
                 Call("move", <<TempOutFile(filename), transcoded_path>>,
                      IF ok THEN 0 ELSE 1, ""))
          /\ IF ok
             THEN /\ fs' = [fs EXCEPT ![transcoded_path] = fs[TempOutFile(filename)],
                                      ![TempOutFile(filename)] = NoFile]
                  /\ stages' = Append(stages, "RELOCATED")
                  /\ pc' = "notify"
             ELSE /\ pc' = "except"
                  /\ UNCHANGED <<fs, stages>>
    /\ UNCHANGED <<argv, factor, previous_stages,
                   exit_status, run, reg_filename, fs_at_start, dirs,
                   filename, transcoded_path, comskip_configfile,
                   raw_detection_result, commercials, content, ffmetadata,
                   target_video_bitrate>>

ResponseIsSuccessAnyStatus(status_code) == status_code >= 200

ResponseIsSuccessBelow500(status_code) == status_code < 500

\* not (ts_response.status_code != 200)
ResponseIsSuccess(status_code) == status_code = 200

\* update_file_location: the file-moved request.  The registry points the
\* recording to dst when it serves the request; a request that raises may
\* or may not have been served.  The directory of transcoded_path is the
\* directory of the source, which exists in every state of the model, so
\* the early return False is not taken here.
UpdateFileLocation ==
    /\ pc = "notify"
    /\ IF Dirname(transcoded_path) \notin dirs
       THEN /\ pc' = "return"
            /\ UNCHANGED <<calls, stages, reg_filename>>
       ELSE \E rc \in PostResults, served \in BOOLEAN :
              /\ rc # NoResponse => served = Is2xx(rc)
              /\ calls' = Append(calls,
                     Call("filemoved", [src |-> filename, dst |-> transcoded_path],
                          rc, served))
              /\ reg_filename' =
                     IF served /\ reg_filename = filename
                     THEN transcoded_path ELSE reg_filename
              /\ IF rc = NoResponse
                 THEN /\ pc' = "except"
                      /\ UNCHANGED stages
                 ELSE IF ResponseIsSuccess(rc)
                 THEN /\ stages' = Append(stages, "NOTIFIED")
                      /\ pc' = "remove"
                 ELSE /\ pc' = "return"
                      /\ UNCHANGED stages
    /\ UNCHANGED <<argv, factor, previous_stages,
                   exit_status, run, fs, fs_at_start, dirs, filename,
                   transcoded_path, comskip_configfile, raw_detection_result,
                   commercials, content, ffmetadata, target_video_bitrate>>

\* os.remove(self.filename.value): the file is there, and the directory
\* took the output a moment ago
RemoveSource ==
    /\ pc = "remove"
    /\ calls' = Append(calls, Call("remove", filename, 0, ""))
    /\ fs' = [fs EXCEPT ![filename] = NoFile]
    /\ stages' = Append(stages, "CLEANED")
    /\ pc' = "return"
    /\ UNCHANGED <<argv, factor, previous_stages,
                   exit_status, run, reg_filename, fs_at_start, dirs,
                   filename, transcoded_path, comskip_configfile,
                   raw_detection_result, commercials, content, ffmetadata,
                   target_video_bitrate>>

\* except Exception as err: print(err).  With the exception gone, the
\* frame of detect_commercials and its temporary directory go too.
HandleException ==
    /\ pc = "except"
    /\ dirs' = dirs \ {ComskipTmp}
    /\ pc' = "return"
    /\ UNCHANGED <<argv, factor, previous_stages,
                   exit_status, run, reg_filename, fs, fs_at_start,
                   filename, transcoded_path, comskip_configfile,
                   raw_detection_result, commercials, content, ffmetadata,
                   target_video_bitrate, calls, stages>>

\* the exit status of the interpreter: 1 after an uncaught exception, 0
\* after main() returned
ExitStatusOf(how) == IF how = "uncaught" THEN 1 ELSE 0

RemovedAtExitDetectorOnly == {ComskipTmp}

\* the directories made with tempfile.TemporaryDirectory (lines 56 and 229):
\* the finalizer of the object removes its directory when the object goes
\* away, at the latest when the interpreter exits
RemovedAtExit == {ComskipTmp, EncTmp}

\* the end of the process: the temporary directories that are left are
\* removed with what they hold
ProcessExit ==
    /\ pc \in {"return", "uncaught"}
    /\ exit_status' = ExitStatusOf(pc)
    /\ dirs' = dirs \ RemovedAtExit
    /\ fs' = [p \in Files |-> IF Dirname(p) \in RemovedAtExit THEN NoFile ELSE fs[p]]
    /\ pc' = "exited"
    /\ UNCHANGED <<argv, factor, previous_stages,
                   run, reg_filename, fs_at_start, filename,
                   transcoded_path, comskip_configfile, raw_detection_result,
                   commercials, content, ffmetadata, target_video_bitrate,
                   calls, stages>>

\* the scheduler starts the script again for the same recording
Rerun ==
    /\ pc = "exited"
    /\ run < MaxRuns
    /\ run' = run + 1
    /\ fs_at_start' = fs
    /\ pc' = "start"
    /\ exit_status' = NoStatus
    /\ filename' = Unset
    /\ transcoded_path' = Unset
    /\ comskip_configfile' = Unset
    /\ raw_detection_result' = <<>>
    /\ commercials' = <<>>
    /\ content' = <<>>
    /\ ffmetadata' = Unset
    /\ target_video_bitrate' = Unset
    /\ calls' = <<>>
    /\ stages' = <<>>
    /\ previous_stages' = stages
    /\ UNCHANGED <<argv, factor, reg_filename, fs, dirs>>

Next ==
    \/ ParseArguments
    \/ LoadRecord
    \/ DetectCommercials
    \/ AnalyzeSegments
    \/ PrepareTranscoding
    \/ EstimateBitrate
    \/ Encode
    \/ Relocate
    \/ UpdateFileLocation
    \/ RemoveSource
    \/ HandleException
    \/ ProcessExit
    \/ Rerun

Spec == Init /\ [][Next]_vars

---------------------------------------------------------------------------
(* The analyzer on every report: the state in which the detector has just  *)
(* returned, for each report of at most MaxLines lines, and the analysis.  *)

InitAnalyze ==
    /\ argv = <<"uuid-1", "OK", "comskip.ini">>
    /\ run = 1
    /\ reg_filename = [dir |-> RecDir, base |-> RecordingName, ext |-> "ts"]
    /\ fs = [p \in Files |-> IF p = reg_filename THEN Video(0) ELSE NoFile]
    /\ fs_at_start = fs
    /\ dirs = {RecDir}
    /\ pc = "analyze"
    /\ exit_status = NoStatus
    /\ filename = reg_filename
    /\ transcoded_path = Unset
    /\ comskip_configfile = "comskip.ini"
    /\ raw_detection_result \in Reports
    /\ commercials = <<>>
    /\ content = <<>>
    /\ ffmetadata = [fields |-> HeaderFields, chapters |-> <<>>]
    /\ target_video_bitrate = Unset
    /\ calls = <<Call("load", "uuid-1", 200, reg_filename),
                 Call("load_channel", "channel", 200, ""),
                 Call("comskip", ComskipCall("comskip.ini", filename, ComskipTmp), 0, "")>>
    /\ stages = <<"LOADED", "DETECTED">>
    /\ previous_stages = <<>>
    /\ factor = <<FactorNum, FactorDen>>

NextAnalyze == AnalyzeSegments

SpecAnalyze == InitAnalyze /\ [][NextAnalyze]_vars

---------------------------------------------------------------------------
(* From the report to the metadata file, on every report: the analysis and *)
(* the start of start_transcoding, which writes the metadata file.         *)

NextCompose == AnalyzeSegments \/ PrepareTranscoding

SpecCompose == InitAnalyze /\ [][NextCompose]_vars

---------------------------------------------------------------------------
(* The estimate for every factor: the state in which start_transcoding has *)
(* written the metadata file, for each factor of Factors, and the probe.   *)

InitBitrate ==
    /\ argv = <<"uuid-1", "OK", "comskip.ini">>
    /\ run = 1
    /\ reg_filename = [dir |-> RecDir, base |-> RecordingName, ext |-> "ts"]
    /\ filename = reg_filename
    /\ raw_detection_result \in DetectorReports
    /\ commercials = GenerateMetadata(raw_detection_result).commercials
    /\ content = GenerateMetadata(raw_detection_result).content
    /\ ffmetadata = [fields |-> HeaderFields,
                     chapters |-> GenerateMetadata(raw_detection_result).ffmetadata]
    /\ fs_at_start = [p \in Files |-> IF p = reg_filename THEN Video(0) ELSE NoFile]
    /\ fs = [fs_at_start EXCEPT ![MetadataFile] = Metadata(ffmetadata)]
    /\ dirs = {RecDir, EncTmp}
    /\ pc = "probe"
    /\ exit_status = NoStatus
    /\ transcoded_path = Join(Dirname(filename), TranscodedFile(filename))
    /\ comskip_configfile = "comskip.ini"
    /\ target_video_bitrate = Unset
    /\ calls = <<Call("load", "uuid-1", 200, reg_filename),
                 Call("load_channel", "channel", 200, ""),
                 Call("comskip", ComskipCall("comskip.ini", filename, ComskipTmp), 0, "")>>
    /\ stages = <<"LOADED", "DETECTED", "ANALYZED">>
    /\ previous_stages = <<>>
    /\ factor \in Factors

NextBitrate == EstimateBitrate

SpecBitrate == InitBitrate /\ [][NextBitrate]_vars

---------------------------------------------------------------------------
(* Vocabulary of the properties. *)

\* the record of this invocation is loaded: filename and ffmetadata are set
Loaded == "LOADED" \in Range(stages)

\* the analysis of this invocation is done
Analyzed == "ANALYZED" \in Range(stages)

\* the estimate of this invocation is made: target_video_bitrate is set
Estimated == "ESTIMATED" \in Range(stages)

\* the report has a header that generate_metadata accepts
ValidHeader(report) ==
    Len(report) >= 3 /\ HeaderMatch(report[1]) # <<>>

\* total_frame_count of a report with a valid header
TotalFrames(report) == IntOf(HeaderMatch(report[1])[1])

\* the lines of the report, from line `from` on, that read "<start> <end>"
\* with end - start > 10, as pairs of numbers in report order
KeptLines(report, from) ==
    LET keep(i) ==
            /\ i >= from
            /\ ChapterMatch(report[i]) # <<>>
            /\ IntOf(ChapterMatch(report[i])[2]) - IntOf(ChapterMatch(report[i])[1]) > 10
        idx == SelectSeq([i \in 1..Len(report) |-> i], keep)
    IN  [k \in 1..Len(idx) |->
            <<IntOf(ChapterMatch(report[idx[k]])[1]),
              IntOf(ChapterMatch(report[idx[k]])[2])>>]

\* the call of this invocation to op, or <<>> when there was none
CallsTo(op) == SelectSeq(calls, LAMBDA c : c.op = op)

\* the call ended the way the next line of the code needs to go on
Succeeded(c) ==
    IF c.op \in {"load", "load_channel", "filemoved"} THEN c.rc = 200 ELSE c.rc = 0

\* the files of the recording directory that were there when the invocation
\* started
FilesAtStart == {p \in Files : Dirname(p) = RecDir /\ Exists(fs_at_start, p)}

---------------------------------------------------------------------------
(* Properties of the pipeline. *)

\* C1: a file of the recording directory that was there when the invocation
\* started is gone only if this invocation sent the file-moved request for
\* it before and the registry answered with success; and once the detector,
\* the probe, the encoder, the move or the request has failed, every such
\* file is still there, up to and including the end of the process.
SourceDeletedOnlyAfterConfirmation ==
    /\ \A p \in FilesAtStart :
          ~Exists(fs, p) =>
              \E i \in DOMAIN calls :
                 /\ calls[i].op = "filemoved"
                 /\ Is2xx(calls[i].rc)
                 /\ calls[i].arg.src = p
                 /\ \E j \in DOMAIN calls : j > i /\ calls[j].op = "remove"
    /\ (\E i \in DOMAIN calls :
           /\ calls[i].op \in {"comskip", "ffprobe", "ffmpeg", "move", "filemoved"}
           /\ ~Succeeded(calls[i]))
         => \A p \in FilesAtStart : Exists(fs, p)

\* C1 witness: the process has ended, the source that was there at its start
\* is gone, and the registry had answered the request with 200
SourceDeletedAfterConfirmation ==
    /\ pc = "exited"
    /\ Loaded
    /\ filename \in FilesAtStart
    /\ ~Exists(fs, filename)
    /\ \E i \in DOMAIN calls : calls[i].op = "filemoved" /\ calls[i].rc = 200

\* C2 as claimed: at the end of an invocation that found its source, the
\* source has been removed (stage CLEANED) exactly if the registry answered
\* the file-moved request with a 2xx status
SourceRemovedIffAnswered2xx ==
    (pc = "exited" /\ Loaded /\ filename \in FilesAtStart) =>
        ((\E i \in DOMAIN calls : calls[i].op = "filemoved" /\ Is2xx(calls[i].rc))
           <=> ("CLEANED" \in Range(stages) /\ ~Exists(fs, filename)))

\* C2 amended: once the registry has answered the file-moved request with
\* status 200 the only step left is the removal of the source, and at the
\* end of an invocation that found its source the source has been removed
\* (stage CLEANED) exactly if the registry answered with status 200
SourceRemovedIffAnswered200 ==
    /\ (\E i \in DOMAIN calls : calls[i].op = "filemoved" /\ calls[i].rc = 200)
         => \/ pc = "remove"
            \/ "CLEANED" \in Range(stages) /\ ~Exists(fs, filename)
    /\ (pc = "exited" /\ Loaded /\ filename \in FilesAtStart) =>
          ((\E i \in DOMAIN calls : calls[i].op = "filemoved" /\ calls[i].rc = 200)
             <=> ("CLEANED" \in Range(stages) /\ ~Exists(fs, filename)))

\* C2 witness: the registry has just answered 200 and the removal is next
AnsweredAndAboutToRemove ==
    /\ pc = "remove"
    /\ Exists(fs, filename)
    /\ calls[Len(calls)].op = "filemoved"
    /\ calls[Len(calls)].rc = 200

\* the external operations of an invocation, in the order of the code
CallOrder ==
    <<"load", "load_channel", "comskip", "ffprobe", "ffmpeg", "move",
      "filemoved", "remove">>

\* C3: the stages completed so far are an initial part of LOADED, DETECTED,
\* ANALYZED, ESTIMATED, ENCODED, RELOCATED, NOTIFIED, CLEANED (so each at
\* most once and in this order); the external operations are made in the
\* order lookup, channel lookup, detector, probe, encoder, move, request,
\* removal, each only after all the ones before it succeeded and with the
\* stages before it completed; and an invocation that made a call and saw no
\* call fail has completed all eight stages when the process ends.
StagesInOrder ==
    /\ Len(stages) <= Len(StageOrder)
    /\ \A i \in DOMAIN stages : stages[i] = StageOrder[i]
    /\ Len(calls) <= Len(CallOrder)
    /\ \A i \in DOMAIN calls :
          /\ calls[i].op = CallOrder[i]
          /\ i < Len(calls) => Succeeded(calls[i])
    /\ \A i \in DOMAIN calls :
          /\ calls[i].op = "comskip" => Len(stages) >= 1
          /\ calls[i].op = "ffprobe" => Len(stages) >= 3
          /\ calls[i].op = "ffmpeg" => Len(stages) >= 4
          /\ calls[i].op = "move" => Len(stages) >= 5
          /\ calls[i].op = "filemoved" => Len(stages) >= 6
          /\ calls[i].op = "remove" => Len(stages) >= 7
    /\ (pc = "exited" /\ calls # <<>> /\ \A i \in DOMAIN calls : Succeeded(calls[i]))
         => stages = StageOrder

\* C3 witness: an invocation in which nothing failed has ended
RunWithoutFailureEnded ==
    /\ pc = "exited"
    /\ calls # <<>>
    /\ \A i \in DOMAIN calls : Succeeded(calls[i])
    /\ stages = StageOrder

\* the invocation ended on a fatal condition: the lookup, the detector, the
\* probe or the encoder failed
FatalCondition ==
    /\ calls # <<>>
    /\ calls[Len(calls)].op \in {"load", "load_channel", "comskip", "ffprobe", "ffmpeg"}
    /\ ~Succeeded(calls[Len(calls)])

\* C4 as claimed: a process that ended on a fatal condition made no further
\* call, completed no further stage, and its exit status is not zero
FatalConditionExitsNonZero ==
    (pc = "exited" /\ FatalCondition) =>
        /\ exit_status # 0
        /\ Len(stages) < Len(calls)

\* C8 as claimed: the estimate for a source of 5,000,000 bits/second is
\* 2,928,640
EstimateOfExampleIs2928640 ==
    (Estimated /\ CallsTo("ffprobe")[1].out = 5000000)
        => target_video_bitrate = 2928640

\* C8 amended: the estimate for a source of 5,000,000 bits/second with
\* factor 0.6 is 2,999,296, which is floor(5,000,000 * 0.6 / 1024) * 1024
EstimateOfExampleIs2999296 ==
    (Estimated /\ CallsTo("ffprobe")[1].out = 5000000)
        => target_video_bitrate = 2999296

\* C8 witness: the probe reported 5,000,000 and the estimate was made
ExampleBitrateEstimated ==
    /\ Estimated
    /\ CallsTo("ffprobe")[1].out = 5000000
    /\ target_video_bitrate > 0

\* C9: when the status argument is not "OK", the invocation makes no
\* external call (no lookup, detector, probe, encoder, move, request or
\* removal), completes no stage, creates no temporary directory, leaves
\* every file and the registry as they were, and goes from the check of the
\* arguments straight to the end of the process.
NoSideEffectUnlessStatusOK ==
    (Len(argv) >= 2 /\ argv[2] # "OK") =>
        /\ calls = <<>>
        /\ stages = <<>>
        /\ fs = fs_at_start
        /\ dirs \cap TempDirs = {}
        /\ pc \in {"start", "return", "exited"}
        /\ exit_status \in {NoStatus, 0}
        /\ pc = "exited" => exit_status = 0

\* C9 witness: a complete argument vector with another status, process ended
EndedOnStatusNotOK ==
    /\ pc = "exited"
    /\ Len(argv) = 3
    /\ argv[2] # "OK"

\* C10 as claimed: an invocation with the recording identifier and the
\* status "OK" and no configuration path starts the pipeline: by the end of
\* the process the registry lookup was made
TwoArgumentsStartPipeline ==
    (pc = "exited" /\ Len(argv) = 2 /\ argv[2] = "OK") =>
        /\ calls # <<>>
        /\ calls[1].op = "load"

---------------------------------------------------------------------------
(* Properties of the analyzer. *)

\* the report of the example, as claimed: the interval lines follow the header
ExampleReportAfterHeader ==
    <<ExampleHeader, IntervalLine(100, 130), IntervalLine(500, 550)>>

\* the report of the example with the detector's separator line under the
\* header
ExampleReport ==
    <<ExampleHeader, Separator, IntervalLine(100, 130), IntervalLine(500, 550)>>

\* C5 as claimed: for a report with a valid header the commercials are the
\* kept lines after the header, in report order, and the example gives
\* commercials [(100,130),(500,550)] and content [(1,100),(130,500),(550,1000)]
KeepsLinesAfterHeader ==
    (Analyzed /\ ValidHeader(raw_detection_result)) =>
        /\ commercials = KeptLines(raw_detection_result, 2)
        /\ raw_detection_result = ExampleReportAfterHeader =>
              /\ commercials = <<<<100, 130>>, <<500, 550>>>>
              /\ content = <<<<1, 100>>, <<130, 500>>, <<550, 1000>>>>

\* C5 amended: for a report with a valid header the commercials are the kept
\* lines from the third line of the report on (the line under the header is
\* never read as an interval), in report order; the header, a separator
\* line, "100 130" and "500 550" give commercials [(100,130),(500,550)] and
\* content [(1,100),(130,500),(550,1000)]
KeepsLinesAfterSeparator ==
    (Analyzed /\ ValidHeader(raw_detection_result)) =>
        /\ commercials = KeptLines(raw_detection_result, 3)
        /\ raw_detection_result = ExampleReport =>
              /\ commercials = <<<<100, 130>>, <<500, 550>>>>
              /\ content = <<<<1, 100>>, <<130, 500>>, <<550, 1000>>>>

\* C5 witness: the example report has been analyzed
ExampleReportAnalyzed ==
    /\ Analyzed
    /\ raw_detection_result = ExampleReport
    /\ Len(commercials) = 2
    /\ Len(content) = 3

\* the kept commercials are in increasing frame order, do not overlap one
\* another and lie within [1, total]
WellFormed(coms, total) ==
    /\ \A i \in DOMAIN coms : coms[i][1] >= 1 /\ coms[i][2] <= total
    /\ \A i, j \in DOMAIN coms : i < j => coms[i][2] <= coms[j][1]

\* content and commercials merged and sorted by start frame
Merged == SortSeq(content \o commercials, LAMBDA a, b : a[1] < b[1])

\* C6: for a report with a valid header and at least one kept commercial,
\* the kept commercials well formed: a content interval and a commercial
\* interval share at most a boundary frame, and the merged sorted intervals
\* start at frame 1, end at total_frame_count, and each starts where the
\* one before it ends.
ContentFillsGaps ==
    (/\ Analyzed
     /\ ValidHeader(raw_detection_result)
     /\ commercials # <<>>
     /\ WellFormed(commercials, TotalFrames(raw_detection_result))) =>
        /\ \A i \in DOMAIN content, j \in DOMAIN commercials :
              \/ content[i][2] <= commercials[j][1]
              \/ commercials[j][2] <= content[i][1]
        /\ Merged[1][1] = 1
        /\ Merged[Len(Merged)][2] = TotalFrames(raw_detection_result)
        /\ \A k \in 1..(Len(Merged) - 1) : Merged[k][2] = Merged[k + 1][1]

\* C6 witness: two well-formed commercials with content before, between
\* and after them
TwoCommercialsThreeContents ==
    /\ Analyzed
    /\ ValidHeader(raw_detection_result)
    /\ Len(commercials) = 2
    /\ WellFormed(commercials, TotalFrames(raw_detection_result))
    /\ Len(content) = 3

\* C7: every interval in commercials is longer than 10 frames, so is every
\* chapter labelled commercial, and the pair (100,105) of the line
\* "100 105" is in neither.
CommercialsLongerThanThreshold ==
    /\ \A i \in DOMAIN commercials :
          /\ commercials[i][2] - commercials[i][1] > 10
          /\ commercials[i] # <<100, 105>>
    /\ Loaded =>
          \A k \in DOMAIN ffmetadata.chapters :
             ffmetadata.chapters[k].title[1] = "commercial" =>
                ffmetadata.chapters[k].END - ffmetadata.chapters[k].START > 10

\* C7 witness: a report with a valid header whose interval lines include
\* "100 105" and a longer one has been analyzed, and a commercial was kept
ShortCandidateDropped ==
    /\ Analyzed
    /\ ValidHeader(raw_detection_result)
    /\ \E i \in 3..Len(raw_detection_result) :
          raw_detection_result[i] = IntervalLine(100, 105)
    /\ Len(commercials) = 1

---------------------------------------------------------------------------
(* Properties of the pipeline: temporary directories, failures, reruns. *)

\* the call of this invocation to op that failed, if there is one
FailedCallTo(op) == \E i \in DOMAIN calls : calls[i].op = op /\ ~Succeeded(calls[i])

\* C11: when an invocation has ended, on whatever path, neither temporary
\* directory exists any more, nor any file in one of them.
TempDirsGoneAtExit ==
    pc \in {"exited", "start"} =>
       /\ dirs \cap TempDirs = {}
       /\ \A p \in Files : Dirname(p) \in TempDirs => ~Exists(fs, p)

\* C11 witness: an invocation has ended after the encoder failed, that is
\* after both temporary directories were made
EndedAfterEncoderFailed ==
    /\ pc = "exited"
    /\ CallsTo("comskip") # <<>>
    /\ FailedCallTo("ffmpeg")

\* the invocation before this one went through every stage
PreviousRunSucceeded == previous_stages = StageOrder

\* C12: an invocation that follows a successful one for the same recording
\* sends no file-moved request, removes no file, and leaves every file of
\* the recording directory as the first invocation left it.
RerunAfterSuccessChangesNothing ==
    PreviousRunSucceeded =>
       /\ CallsTo("filemoved") = <<>>
       /\ CallsTo("remove") = <<>>
       /\ \A p \in Files : Dirname(p) = RecDir => fs[p] = fs_at_start[p]

\* C13: whatever the path of the source file, as long as the invocation has
\* not reached CLEANED the source path holds what it held when the
\* invocation started, the original recording.
SourceUntouchedBeforeCleaned ==
    (Loaded /\ "CLEANED" \notin Range(stages)) =>
       fs[filename] = fs_at_start[filename]

\* C14: once the detector, the probe or the encoder has failed, the
\* invocation has sent no file-moved request and moved no file, every file
\* of the recording directory (the source and the final output path among
\* them) is as it was when the invocation started, and the registry records
\* the path it returned on lookup.
ToolFailureLeavesRegistryAndFiles ==
    (FailedCallTo("comskip") \/ FailedCallTo("ffprobe") \/ FailedCallTo("ffmpeg")) =>
       /\ CallsTo("filemoved") = <<>>
       /\ CallsTo("move") = <<>>
       /\ \A p \in Files : Dirname(p) = RecDir => fs[p] = fs_at_start[p]
       /\ reg_filename = CallsTo("load")[1].out

\* C14 witness: an invocation has ended after the probe failed
EndedAfterProbeFailed ==
    /\ pc = "exited"
    /\ FailedCallTo("ffprobe")
    /\ Exists(fs, filename)

\* a report from which no interval is kept: fewer than 3 lines, a first
\* line that is not a header, or no line from the third on that reads
\* "<start> <end>" with end - start > 10
NothingKept(report) ==
    \/ Len(report) < 3
    \/ HeaderMatch(report[1]) = <<>>
    \/ KeptLines(report, 3) = <<>>

\* C15: after the detector succeeded the analysis does not end the
\* invocation: main is at the analysis or has completed it and goes on with
\* start_transcoding; and for a report from which nothing is kept the
\* metadata is the descriptive fields without any chapter, which is what
\* the metadata file for the encoder holds when the probe is next.
AnalysisNeverAborts ==
    /\ pc \in {"analyze", "transcode", "probe"}
    /\ pc # "analyze" => Analyzed
    /\ (Analyzed /\ NothingKept(raw_detection_result)) =>
          /\ ffmetadata = [fields |-> HeaderFields, chapters |-> <<>>]
          /\ pc = "probe" => fs[MetadataFile] = Metadata(ffmetadata)

\* C15 witness: a report of three lines or more whose first line is not a
\* header and which has an interval line longer than 10 frames has been
\* analyzed, and the metadata file is written
HeaderlessReportComposed ==
    /\ pc = "probe"
    /\ Len(raw_detection_result) >= 3
    /\ HeaderMatch(raw_detection_result[1]) = <<>>
    /\ raw_detection_result[3] = IntervalLine(100, 130)
    /\ fs[MetadataFile] = Metadata([fields |-> HeaderFields, chapters |-> <<>>])

\* a lookup of this invocation, of the recording or of its channel, was not
\* answered with the record
LookupFailed ==
    \E i \in DOMAIN calls :
       calls[i].op \in {"load", "load_channel"} /\ calls[i].rc # 200

\* C16: when a lookup did not return its record the invocation fails before
\* LOADED is complete: it ends with an error, and it has called nothing but
\* the registry lookups (no detector, probe, encoder, move, file-moved
\* request or removal), made no temporary directory and changed no file.
LookupFailureStopsTheRun ==
    LookupFailed =>
       /\ \A i \in DOMAIN calls : calls[i].op \in {"load", "load_channel"}
       /\ stages = <<>>
       /\ dirs \cap TempDirs = {}
       /\ fs = fs_at_start
       /\ pc \in {"uncaught", "exited"}
       /\ pc = "exited" => exit_status = 1

\* C16 witness: an invocation has ended after the registry returned the
\* recording but not its channel
EndedAfterChannelLookupFailed ==
    /\ pc = "exited"
    /\ Len(calls) = 2
    /\ calls[1].rc = 200
    /\ calls[2].op = "load_channel"
    /\ calls[2].rc = 404

\* C19: whenever an invocation has reached CLEANED, whatever the path of
\* the source file, the path that was reported to the registry as dst is
\* the final output path and holds the transcoded output.
OutputExistsAfterCleaned ==
    "CLEANED" \in Range(stages) =>
       /\ CallsTo("filemoved")[1].arg.dst = transcoded_path
       /\ Exists(fs, transcoded_path)

---------------------------------------------------------------------------
(* Properties of the estimate. *)

\* src_video_bitrate of the estimate of this invocation
ProbedBitrate == CallsTo("ffprobe")[1].out

\* C17: for every source bitrate b >= 0 and factor f = num / den in (0, 1],
\* the estimate t is floor(b * f / 1024) * 1024: t is a multiple of 1024,
\* t <= b * f and b * f - t < 1024 (the last two multiplied by den).
EstimateIsFloorOfExactProduct ==
    Estimated =>
       /\ target_video_bitrate % KiB = 0
       /\ target_video_bitrate * factor[2] <= ProbedBitrate * factor[1]
       /\ ProbedBitrate * factor[1] - target_video_bitrate * factor[2]
             < KiB * factor[2]

---------------------------------------------------------------------------
(* Properties of the analyzer on reports without a kept interval, and on   *)
(* intervals in any order.                                                 *)

\* C18: for a report with a valid header from whose lines no interval is
\* kept, commercials and content are both empty and no chapter of either
\* label is in the metadata, although the header counts more than 1 frame.
NoKeptIntervalNoChapters ==
    (/\ Analyzed
     /\ ValidHeader(raw_detection_result)
     /\ KeptLines(raw_detection_result, 3) = <<>>) =>
       /\ commercials = <<>>
       /\ content = <<>>
       /\ ffmetadata.chapters = <<>>

\* C18 witness: a report with a valid header for 1000 frames whose only
\* interval lines are "100 105" has been analyzed and left no content
OnlyShortIntervalsAnalyzed ==
    /\ Analyzed
    /\ ValidHeader(raw_detection_result)
    /\ TotalFrames(raw_detection_result) > 1
    /\ Len(raw_detection_result) = 4
    /\ raw_detection_result[3] = IntervalLine(100, 105)
    /\ raw_detection_result[4] = IntervalLine(100, 105)
    /\ content = <<>>

\* C20: for every sequence of kept intervals, in whatever order and
\* overlapping or not, each content interval has start < end, and there are
\* at most as many content intervals as commercials plus one.
ContentIntervalsProper ==
    Analyzed =>
       /\ \A i \in DOMAIN content : content[i][1] < content[i][2]
       /\ Len(content) <= Len(commercials) + 1

\* C20 witness: two kept intervals were analyzed of which the second starts
\* before the first and ends inside it, and content was emitted
OverlappingOutOfOrderAnalyzed ==
    /\ Analyzed
    /\ Len(commercials) = 2
    /\ commercials[2][1] < commercials[1][1]
    /\ commercials[2][2] > commercials[1][1]
    /\ commercials[2][2] < commercials[1][2]
    /\ Len(content) = 2

=============================================================================
